---------------------------- MODULE Spec2Model ----------------------------
(***************************************************************************)
(* A model of the quality-gated course pipeline:                           *)
(*   - the Quality Scorer   (src/src/scripts/qualityEngine.js, 1-345)      *)
(*   - the Quality Gates    (src/src/scripts/qualityEngine.js, 347-489)    *)
(*   - the Orchestrator     (src/src/scripts/courseOrchestrator.js)        *)
(*   - the Catalog          (src/src/apollo/curriculum.js)                 *)
(*                                                                         *)
(* Three specifications share the variables:                               *)
(*   SpecScore  evaluateCourseQuality applied to vectors of dimension      *)
(*              scores;                                                    *)
(*   SpecGates  runAllGates applied to artifacts and production data;      *)
(*   Spec       orchestrate() runs against the catalog.                    *)
(***************************************************************************)
EXTENDS Integers, Sequences, FiniteSets, TLC

(***************************************************************************)
(* IEEE-754 double arithmetic, as far as the scorer uses it.               *)
(*                                                                         *)
(* The scorer forms  sum + (r.score * WEIGHTS[key])  in JavaScript         *)
(* numbers.  Every double that occurs is a non-negative multiple of 2^-57  *)
(* below 2^7, so it is held exactly as an integer count of 2^-57 units,    *)
(* written in four 16-bit limbs, least significant first.  Each operation  *)
(* is the exact integer operation followed by rounding to 53 significant   *)
(* bits, ties to even.                                                     *)
(***************************************************************************)
LimbBase == 65536

Carry(a) ==
    LET c1 == a[1] \div LimbBase
        c2 == (a[2] + c1) \div LimbBase
        c3 == (a[3] + c2) \div LimbBase
    IN  << a[1] % LimbBase, (a[2] + c1) % LimbBase,
           (a[3] + c2) % LimbBase, a[4] + c3 >>

BigAdd(a, b) == Carry(<< a[1] + b[1], a[2] + b[2], a[3] + b[3], a[4] + b[4] >>)

BigMulSmall(a, k) == Carry(<< a[1] * k, a[2] * k, a[3] * k, a[4] * k >>)

BitLen16(x) == IF x = 0 THEN 0 ELSE CHOOSE n \in 1..16 : 2^(n-1) <= x /\ x < 2^n

BitLen(a) ==
    IF a[4] > 0 THEN 48 + BitLen16(a[4])
    ELSE IF a[3] > 0 THEN 32 + BitLen16(a[3])
    ELSE IF a[2] > 0 THEN 16 + BitLen16(a[2])
    ELSE BitLen16(a[1])

RoundToDouble(a) ==
    LET r == BitLen(a) - 53 IN
    IF r <= 0 THEN a
    ELSE LET unit  == 2^r
             rem   == a[1] % unit
             trunc == [a EXCEPT ![1] = a[1] - rem]
             odd   == ((a[1] \div unit) % 2) = 1
             up    == rem > (unit \div 2) \/ (rem = (unit \div 2) /\ odd)
         IN  IF up THEN BigAdd(trunc, << unit, 0, 0, 0 >>) ELSE trunc

FloatMul(score, w) == RoundToDouble(BigMulSmall(w, score))

FloatAdd(x, y) == RoundToDouble(BigAdd(x, y))

\* Math.round: the nearest integer, a tie going up.  Bit 57 is bit 9 of limb 4.
MathRound(x) == (x[4] \div 512) + (IF (x[4] % 512) >= 256 THEN 1 ELSE 0)

(***************************************************************************)
(* The Quality Scorer's thresholds and weights.                            *)
(***************************************************************************)
THRESHOLD_TARGET == 95
THRESHOLD_ACCEPTABLE == 90
THRESHOLD_MINIMUM == 85

\* Object.entries(scores) visits the dimensions in this order.
Dims == << "accuracy", "learningObjectives", "contentStructure",
           "practicalApplication", "assessmentQuality",
           "productionCompleteness", "engagementClarity" >>

DimSet == { Dims[i] : i \in 1..Len(Dims) }

\* The doubles nearest to 0.25, 0.15, 0.20, 0.10 and 0.05, in units of 2^-57.
Double025 == << 0, 0, 0, 128 >>
Double015 == << 52428, 52428, 52428, 76 >>
Double020 == << 26216, 26214, 26214, 102 >>
Double010 == << 13108, 13107, 13107, 51 >>
Double005 == << 39322, 39321, 39321, 25 >>

WEIGHTS ==
    [ accuracy               |-> Double025,
      learningObjectives     |-> Double015,
      contentStructure       |-> Double015,
      practicalApplication   |-> Double020,
      assessmentQuality      |-> Double010,
      productionCompleteness |-> Double010,
      engagementClarity      |-> Double005 ]

RECURSIVE WeightedSumFrom(_, _, _)
WeightedSumFrom(scores, i, sum) ==
    IF i > Len(Dims) THEN sum
    ELSE WeightedSumFrom(scores, i + 1,
                         FloatAdd(sum, FloatMul(scores[Dims[i]], WEIGHTS[Dims[i]])))

\* Object.entries(scores).reduce((sum, [key, r]) => sum + r.score * WEIGHTS[key], 0)
WeightedSum(scores) == WeightedSumFrom(scores, 1, << 0, 0, 0, 0 >>)

Overall(scores) == MathRound(WeightedSum(scores))

Failing(scores) == SelectSeq(Dims, LAMBDA d : scores[d] < THRESHOLD_MINIMUM)

\* A scorer that lets the overall score alone decide.
PassingByOverallOnly(scores) == Overall(scores) >= THRESHOLD_MINIMUM

Passing(scores) == Overall(scores) >= THRESHOLD_MINIMUM /\ Len(Failing(scores)) = 0

\* The QualityEvaluation built from the seven dimension scores.
Evaluation(scores) ==
    [ threw             |-> FALSE,
      overall           |-> Overall(scores),
      passing           |-> Passing(scores),
      scores            |-> scores,
      failingDimensions |-> Failing(scores) ]


(***************************************************************************)
(* ContentArtifact.                                                        *)
(*                                                                         *)
(* A course is held by what the scorer and the gates read of it:           *)
(*   titleLen, descLen   metadata.title.length, metadata.description.length*)
(*                       (0: the field is missing or empty)                *)
(*   hasAI               the lower-cased description includes 'ai'         *)
(*   objectives          metadata.objectives.length                        *)
(*   badObjective        some objective is not a string                    *)
(*   withVerbs           objectives that start with an action verb         *)
(*   sections            a sequence of [lectures, quizTypes]; a lecture is *)
(*                       [words, slides, duration] (duration 0: missing)   *)
(*   flowTitles          the first/last section title reads as intro/close *)
(*   speculative, fillerCount, refCount, examples, actionable, hooks,      *)
(*   youCount, slideTypes, hasNotes                                        *)
(*                       the counts the scorer's text scans arrive at      *)
(*   finalQuiz           [n, good, types]: assessment.finalQuiz.questions  *)
(*   assignment          "none" | "weak" | "good"                          *)
(*   cheatSheet          cheatSheet.sections is non-empty                  *)
(*   gen                 which generator call produced it (0: none)        *)
(***************************************************************************)
RECURSIVE SumSeq(_)
SumSeq(s) == IF s = << >> THEN 0 ELSE Head(s) + SumSeq(Tail(s))

RECURSIVE Flatten(_)
Flatten(ss) == IF ss = << >> THEN << >> ELSE Head(ss) \o Flatten(Tail(ss))

\* sections.flatMap(s => s.lectures || [])
Lectures(c) == Flatten([ i \in 1..Len(c.sections) |-> c.sections[i].lectures ])

\* sections.reduce((s, sec) => s + (sec.lectures?.length || 0), 0)
LectureCount(c) == SumSeq([ i \in 1..Len(c.sections) |-> Len(c.sections[i].lectures) ])

\* Math.round((pts / max) * 100); every rubric's max is 100 and pts an integer.
RubricScore(pts, max) == ((pts * 100) + (max \div 2)) \div max

\* An accuracy rubric that gives the 20 points of the disclosure to every
\* description.
scoreAccuracyDisclosureFree(c) ==
    LET n == Len(Lectures(c))
        p1 == IF c.speculative = 0 THEN 30 ELSE IF c.speculative <= 3 THEN 22 ELSE 10
        p3 == IF c.fillerCount = 0 THEN 25 ELSE IF c.fillerCount <= 5 THEN 18 ELSE 8
        p4 == IF 2 * c.refCount >= n THEN 25 ELSE IF c.refCount >= 2 THEN 18 ELSE 8
    IN  RubricScore(p1 + 20 + p3 + p4, 30 + 20 + 25 + 25)

scoreAccuracy(c) ==
    LET n == Len(Lectures(c))
        p1 == IF c.speculative = 0 THEN 30 ELSE IF c.speculative <= 3 THEN 22 ELSE 10
        p2 == IF c.hasAI THEN 20 ELSE 0
        p3 == IF c.fillerCount = 0 THEN 25 ELSE IF c.fillerCount <= 5 THEN 18 ELSE 8
        p4 == IF 2 * c.refCount >= n THEN 25 ELSE IF c.refCount >= 2 THEN 18 ELSE 8
    IN  RubricScore(p1 + p2 + p3 + p4, 30 + 20 + 25 + 25)

scoreLearningObjectives(c) ==
    LET objs == c.objectives
        secs == Len(c.sections)
        p1 == IF objs >= 4 THEN 30 ELSE IF objs >= 3 THEN 22 ELSE 8
        p2 == IF 10 * c.withVerbs >= 8 * objs THEN 30 ELSE 15
        p3 == IF secs >= objs /\ secs >= 5 THEN 40 ELSE IF secs >= 3 THEN 25 ELSE 10
    IN  RubricScore(p1 + p2 + p3, 30 + 30 + 40)

\* lectures.reduce((s, l) => s + (l.duration || 7), 0)
ScorerDuration(c) ==
    LET ls == Lectures(c)
    IN  SumSeq([ i \in 1..Len(ls) |-> IF ls[i].duration = 0 THEN 7 ELSE ls[i].duration ])

scoreContentStructure(c) ==
    LET secs == Len(c.sections)
        n    == Len(Lectures(c))
        dur  == ScorerDuration(c)
        p1 == IF secs >= 5 /\ secs <= 15 THEN 25 ELSE IF secs >= 3 THEN 15 ELSE 5
        p2 == IF secs > 0 /\ n >= secs /\ n <= 8 * secs THEN 25 ELSE 12
        p3 == IF dur >= 30 /\ dur <= 90 THEN 25 ELSE 12
        p4 == IF c.flowTitles \/ secs >= 5 THEN 25 ELSE 15
    IN  RubricScore(p1 + p2 + p3 + p4, 25 + 25 + 25 + 25)

scorePracticalApplication(c) ==
    LET n == Len(Lectures(c))
        p1 == IF c.examples >= 2 * n THEN 35 ELSE IF c.examples >= n THEN 22 ELSE 8
        p2 == IF c.actionable >= n THEN 30 ELSE 15
        p3 == IF c.assignment = "good" THEN 35
              ELSE IF c.assignment = "weak" THEN 20 ELSE 8
    IN  RubricScore(p1 + p2 + p3, 35 + 30 + 35)

WithQuiz(c) == SelectSeq(c.sections, LAMBDA sec : sec.quizTypes # {})

\* The type values of [...finalQuiz.questions, ...section quiz questions].
QuestionTypes(c) ==
    c.finalQuiz.types \cup UNION { c.sections[i].quizTypes : i \in 1..Len(c.sections) }

scoreAssessmentQuality(c) ==
    LET secs == Len(c.sections)
        wq   == Len(WithQuiz(c))
        p1 == IF secs > 0 /\ 10 * wq >= 7 * secs THEN 35
              ELSE IF secs > 0 /\ 10 * wq >= 4 * secs THEN 20 ELSE 8
        p2 == IF c.finalQuiz.n >= 10 THEN (IF c.finalQuiz.good THEN 35 ELSE 22)
              ELSE IF c.finalQuiz.n >= 5 THEN 18 ELSE 5
        p3 == IF Cardinality(QuestionTypes(c)) >= 2 THEN 30
              ELSE IF QuestionTypes(c) # {} THEN 18 ELSE 5
    IN  RubricScore(p1 + p2 + p3, 35 + 35 + 30)

Min(a, b) == IF a <= b THEN a ELSE b

scoreProductionCompleteness(c) ==
    LET ls == Lectures(c)
        hasSlides == \A i \in 1..Len(ls) : ls[i].slides >= 2
    IN  Min(100, 70 + (IF hasSlides THEN 15 ELSE 0)
                    + (IF c.hasNotes THEN 10 ELSE 0)
                    + (IF c.cheatSheet THEN 5 ELSE 0))

scoreEngagementClarity(c) ==
    LET n == Len(Lectures(c))
        p1 == IF 10 * c.hooks >= 7 * n THEN 40 ELSE 20
        p2 == IF n > 0 /\ c.youCount >= 8 * n THEN 30
              ELSE IF n > 0 /\ c.youCount >= 4 * n THEN 20 ELSE 10
        p3 == IF c.slideTypes >= 4 THEN 30 ELSE IF c.slideTypes >= 2 THEN 20 ELSE 10
    IN  RubricScore(p1 + p2 + p3, 40 + 30 + 30)

DimensionScores(c) ==
    [ accuracy               |-> scoreAccuracy(c),
      learningObjectives     |-> scoreLearningObjectives(c),
      contentStructure       |-> scoreContentStructure(c),
      practicalApplication   |-> scorePracticalApplication(c),
      assessmentQuality      |-> scoreAssessmentQuality(c),
      productionCompleteness |-> scoreProductionCompleteness(c),
      engagementClarity      |-> scoreEngagementClarity(c) ]

\* o.toLowerCase() on an objective that is not a string raises a TypeError.
ScorerThrows(c) == c.badObjective

\* What a call that raised leaves behind: no evaluation.
Thrown ==
    [ threw |-> TRUE, overall |-> 0, passing |-> FALSE,
      scores |-> [ d \in DimSet |-> 0 ], failingDimensions |-> << >> ]

evaluateCourseQuality(c) ==
    IF ScorerThrows(c) THEN Thrown ELSE Evaluation(DimensionScores(c))

(***************************************************************************)
(* The Quality Gates.  A GateResult lists the names of its passed checks   *)
(* and of its failures, in the order the gate recorded them.               *)
(***************************************************************************)
GateResult(n) == [ gate |-> n, passed |-> TRUE, checks |-> << >>, failures |-> << >> ]

\* const check = (cond, name, value, issue) => { ... }
Check(r, cond, name) ==
    IF cond THEN [ r EXCEPT !.checks = Append(@, name) ]
    ELSE [ r EXCEPT !.passed = FALSE, !.failures = Append(@, name) ]

\* A Gate 1 that stops checking at its first failure.
gateCurriculumFirstFailureOnly(c) ==
    LET r0 == GateResult(1)
        r1 == Check(r0, c.titleLen >= 10 /\ c.titleLen <= 80, "Title")
        r2 == IF r1.passed THEN Check(r1, c.descLen >= 200, "Description") ELSE r1
        r3 == IF r2.passed THEN Check(r2, c.objectives >= 3, "Objectives") ELSE r2
        r4 == IF r3.passed THEN Check(r3, Len(c.sections) >= 5, "Sections") ELSE r3
    IN  IF r4.passed THEN Check(r4, LectureCount(c) >= 5, "Lectures") ELSE r4

gateCurriculum(c) ==
    LET r0 == GateResult(1)
        r1 == Check(r0, c.titleLen >= 10 /\ c.titleLen <= 80, "Title")
        r2 == Check(r1, c.descLen >= 200, "Description")
        r3 == Check(r2, c.objectives >= 3, "Objectives")
        r4 == Check(r3, Len(c.sections) >= 5, "Sections")
    IN  Check(r4, LectureCount(c) >= 5, "Lectures")

\* lectures with words < 200 || slides < 2
Issues(c) == Len(SelectSeq(Lectures(c), LAMBDA l : l.words < 200 \/ l.slides < 2))

\* totalDuration += lec.duration || 0
GateDuration(c) ==
    LET ls == Lectures(c) IN SumSeq([ i \in 1..Len(ls) |-> ls[i].duration ])

\* A Gate 2 that fails the quality check from 30% on.
gateLecturesFrom30(c) ==
    LET total == LectureCount(c)
        r1 == Check(GateResult(2), ~(total > 0 /\ 10 * Issues(c) >= 3 * total), "Quality")
    IN  Check(r1, ~(GateDuration(c) < 30 \/ GateDuration(c) > 120), "Duration")

\* issues / total > 0.3; 0 / 0 is NaN, which is not greater than 0.3.
gateLectures(c) ==
    LET total == LectureCount(c)
        r1 == Check(GateResult(2), ~(total > 0 /\ 10 * Issues(c) > 3 * total), "Quality")
    IN  Check(r1, ~(GateDuration(c) < 30 \/ GateDuration(c) > 120), "Duration")

\* productionData.audioFiles is a sequence of [lectureIndex, exists].
AudioOK(prod) == Len(SelectSeq(prod.audioFiles, LAMBDA af : af.exists))

gateVideo(prod) ==
    Check(GateResult(3),
          ~(Len(prod.audioFiles) > 0 /\ 2 * AudioOK(prod) < Len(prod.audioFiles)),
          "Audio")

\* A Gate 4 that lists a dimension below the minimum among its passed checks.
gateFinalAssemblyAllChecks(c) ==
    LET ev == evaluateCourseQuality(c)
        r == [ gate |-> 4, passed |-> ev.passing, checks |-> Dims,
               failures |-> << >>, overall |-> ev.overall ]
    IN  IF ~c.hasAI
        THEN [ r EXCEPT !.passed = FALSE, !.failures = Append(@, "Udemy Compliance") ]
        ELSE r

\* Defined when the scorer does not throw.
gateFinalAssembly(c) ==
    LET ev == evaluateCourseQuality(c)
        passedDims == SelectSeq(Dims, LAMBDA d : ev.scores[d] >= THRESHOLD_MINIMUM)
        failedDims == SelectSeq(Dims, LAMBDA d : ~(ev.scores[d] >= THRESHOLD_MINIMUM))
        r == [ gate |-> 4, passed |-> ev.passing, checks |-> passedDims,
               failures |-> failedDims, overall |-> ev.overall ]
    IN  IF ~c.hasAI
        THEN [ r EXCEPT !.passed = FALSE, !.failures = Append(@, "Udemy Compliance") ]
        ELSE r

(***************************************************************************)
(* Inputs: artifacts and production data.                                  *)
(***************************************************************************)
Lecture(words, slides, duration) ==
    [ words |-> words, slides |-> slides, duration |-> duration ]

\* The lectures numbered from+1 .. from+n in course order; the first nDef
\* lectures of the course are short of words.
LecturesOf(from, n, nDef, duration) ==
    [ i \in 1..n |-> Lecture(IF from + i <= nDef THEN 199 ELSE 250, 2, duration) ]

RECURSIVE SectionsOf(_, _, _, _, _)
SectionsOf(shape, from, nDef, duration, quizTypes) ==
    IF shape = << >> THEN << >>
    ELSE << [ lectures  |-> LecturesOf(from, Head(shape), nDef, duration),
              quizTypes |-> quizTypes ] >>
         \o SectionsOf(Tail(shape), from + Head(shape), nDef, duration, quizTypes)

\* The course of the end-to-end scenario: 6 sections, 8 lectures, a disclosure,
\* a 12-question final assessment.
GoodCourse ==
    [ titleLen |-> 40, descLen |-> 250, hasAI |-> TRUE,
      objectives |-> 4, badObjective |-> FALSE, withVerbs |-> 4,
      sections |-> SectionsOf(<< 2, 2, 1, 1, 1, 1 >>, 0, 0, 5, { "mcq" }),
      flowTitles |-> TRUE,
      speculative |-> 0, fillerCount |-> 0, refCount |-> 8,
      examples |-> 16, actionable |-> 8, hooks |-> 8, youCount |-> 64,
      slideTypes |-> 4, hasNotes |-> TRUE,
      finalQuiz |-> [ n |-> 12, good |-> TRUE, types |-> { "mcq", "truefalse" } ],
      assignment |-> "good", cheatSheet |-> TRUE, gen |-> 0 ]

AudioFiles(n, nExist) == [ i \in 1..n |-> [ lectureIndex |-> i, exists |-> i <= nExist ] ]

VideoFiles(n) == [ i \in 1..n |-> [ lectureIndex |-> i ] ]

NoProduction == [ audioFiles |-> << >>, videoFiles |-> << >> ]

MaxDeficient == 3
MaxAudio == 2

TitleLens == { 9, 10, 80, 81 }
DescLens == { 199, 200 }
ObjectiveCounts == { 2, 3 }
Shapes == { << 2, 2, 1, 1, 1, 1 >>, << 2, 2, 2, 2 >>, << 1, 1, 1, 1, 0 >>, << 1, 1 >> }
LectureDurations == { 3, 5, 16 }
FillerCounts == { 0, 6 }

GateArtifacts ==
    { [ GoodCourse EXCEPT !.titleLen = t, !.descLen = d, !.objectives = o,
                          !.withVerbs = o, !.hasAI = ai, !.badObjective = bad,
                          !.fillerCount = f,
                          !.sections = SectionsOf(sh, 0, nDef, dur, { "mcq" }) ] :
        t \in TitleLens, d \in DescLens, o \in ObjectiveCounts, ai \in BOOLEAN,
        bad \in BOOLEAN, f \in FillerCounts, sh \in Shapes,
        nDef \in 0..MaxDeficient, dur \in LectureDurations }

Productions ==
    { [ audioFiles |-> AudioFiles(n, k), videoFiles |-> VideoFiles(v) ] :
        n \in 0..MaxAudio, k \in 0..MaxAudio, v \in 0..1 }

ScoreVals == { 0, 37, 84, 85, 100 }

ScoreVectors == [ DimSet -> ScoreVals ]

(***************************************************************************)
(* The orchestrator's configuration and the artifacts its generator stub  *)
(* hands back.                                                             *)
(***************************************************************************)
CONFIG_target == 95
CONFIG_minimum == 85
CONFIG_maxRetries == 3

\* One lecture in each of four sections: too few lectures for the retry loop.
FewCourse == [ GoodCourse EXCEPT !.sections = SectionsOf(<< 1, 1, 1, 1 >>, 0, 0, 5, { "mcq" }) ]

\* Scores 70.
LowCourse ==
    [ GoodCourse EXCEPT !.hasAI = FALSE, !.speculative = 5, !.fillerCount = 3,
                        !.refCount = 1, !.assignment = "none", !.examples = 0,
                        !.actionable = 0 ]

\* Scores 88 with practicalApplication and assessmentQuality below 85; it has
\* no final assessment.
MidCourse ==
    [ GoodCourse EXCEPT !.assignment = "none", !.examples = 8,
                        !.finalQuiz = [ n |-> 0, good |-> FALSE, types |-> {} ] ]

\* Scores 96 with every dimension at 85 or more.
HighCourse == [ GoodCourse EXCEPT !.speculative = 2, !.fillerCount = 3 ]

\* HighCourse with a learning objective that is not a string.
BadCourse == [ HighCourse EXCEPT !.badObjective = TRUE ]

\* What SCRIPTWRITER.generateCourse may resolve to; the orchestrator takes any
\* artifact, whatever the generator's own validation lets through.
GeneratedCourses == { FewCourse, LowCourse, MidCourse, HighCourse, BadCourse }

\* quizGenerator.js generateFallbackQuiz: 15 questions with explanations and
\* three difficulties, none of which carries a type.
FallbackQuiz == [ n |-> 15, good |-> TRUE, types |-> { "undefined" } ]

(***************************************************************************)
(* The catalog: the rows of the Excel sheet in sheet order.                *)
(***************************************************************************)
NumCourses == 2
MaxRuns == 3

Courses == 1..NumCourses

\* The first two rows are of category "A", the others of category "B".
CategoryOf(c) == IF c <= 2 THEN "A" ELSE "B"

\* priority: num, the number in the row's first column; here later rows carry
\* the smaller numbers.
PriorityOf(c) == (NumCourses + 1) - c

NoCourse == 0

Statuses == { "pending", "in_progress", "completed", "needs_review", "failed" }

(***************************************************************************)
(* State.                                                                  *)
(***************************************************************************)
VARIABLES
    scores,        \* the scorer's seven dimension scores
    evaluation,    \* the QualityEvaluation built from them
    gPc,           \* where runAllGates stands
    gArt,          \* its courseContent
    gProd,         \* its productionData
    gateResults,   \* its results object
    gLog,          \* the gates evaluated so far, in order
    firstResults,  \* what an earlier invocation on the same inputs returned
    courseStatus,  \* curriculum.js courseStatus: course -> status
    config,        \* CONFIG's enable flags
    pc,            \* the stage orchestrate() stands at
    options,       \* its argument
    result,        \* its result object
    content,       \* let content
    qualityScore,  \* let qualityScore
    scriptAttempts,\* let scriptAttempts
    hist,          \* what each generator call of this run gave
    calls,         \* how often this run invoked each collaborator
    lastStatus,    \* the status this run wrote last
    runs,          \* orchestrate() calls so far
    batch,         \* orchestrateBatch's locals
    contentJson,   \* the content.json this run wrote into its workspace
    rCourse,       \* the lectures NARRATOR and RENDERER walk through
    rPc,           \* which of the two loops is running
    lectureIndex,  \* let lectureIndex of the running loop
    narResult,     \* generateCourseNarration's results
    renderResult,  \* renderCourseVideos' results
    rendered       \* the render calls made: lecture and audio path

scoreVars == << scores, evaluation >>
gateVars == << gPc, gArt, gProd, gateResults, gLog, firstResults >>
runVars == << config, pc, options, result, content, qualityScore,
              scriptAttempts, hist, calls, lastStatus, runs, batch >>
orchVars == << courseStatus, runVars >>
renderVars == << rCourse, rPc, lectureIndex, narResult, renderResult, rendered >>
vars == << scoreVars, gateVars, orchVars, contentJson, renderVars >>

NoEvaluation == [ none |-> TRUE ]

NoScores == [ d \in DimSet |-> 0 ]

NoGate == [ gate |-> 0 ]
NoFailedAt == 0
NoOverall == -1

\* No earlier invocation.
NoResults == [ none |-> TRUE ]

\* const results = { timestamp, passed: true, gates: {} }, the timestamp
\* counted in clock ticks from the first invocation's.
NewResults ==
    [ timestamp |-> 0,
      passed |-> TRUE,
      gates |-> [ curriculum |-> NoGate, lectures |-> NoGate,
                  video |-> NoGate, finalAssembly |-> NoGate ],
      failedAt |-> NoFailedAt, overall |-> NoOverall ]

ScoreIdle == scores = NoScores /\ evaluation = NoEvaluation
GatesIdle ==
    /\ gPc = "idle" /\ gArt = GoodCourse /\ gProd = NoProduction
    /\ gateResults = NewResults /\ gLog = << >> /\ firstResults = NoResults

(***************************************************************************)
(* evaluateCourseQuality, lines 312-324, on a vector of dimension scores.  *)
(***************************************************************************)
EvaluateScores ==
    /\ evaluation = NoEvaluation
    /\ evaluation' = Evaluation(scores)
    /\ UNCHANGED << scores, gateVars, orchVars, renderVars, contentJson >>

(***************************************************************************)
(* runAllGates.                                                            *)
(***************************************************************************)
\* { results.passed = false; results.failedAt = k; return results; }
FailAt(results, k) == [ results EXCEPT !.passed = FALSE, !.failedAt = k ]

\* A Gate 1 step that records the failure and goes on to Gate 2.
RunGate1NoReturn ==
    /\ gPc = "g1"
    /\ LET g1 == gateCurriculum(gArt)
           r  == [ gateResults EXCEPT !.gates.curriculum = g1 ]
       IN  gateResults' = IF ~g1.passed THEN FailAt(r, 1) ELSE r
    /\ gPc' = "g2"
    /\ gLog' = Append(gLog, 1)
    /\ UNCHANGED << gArt, gProd, firstResults, scoreVars, renderVars, contentJson, orchVars >>

RunGate1 ==
    /\ gPc = "g1"
    /\ LET g1 == gateCurriculum(gArt)
           r  == [ gateResults EXCEPT !.gates.curriculum = g1 ]
       IN  /\ gateResults' = IF ~g1.passed THEN FailAt(r, 1) ELSE r
           /\ gPc' = IF ~g1.passed THEN "done" ELSE "g2"
    /\ gLog' = Append(gLog, 1)
    /\ UNCHANGED << gArt, gProd, firstResults, scoreVars, renderVars, contentJson, orchVars >>

RunGate2 ==
    /\ gPc = "g2"
    /\ LET g2 == gateLectures(gArt)
           r  == [ gateResults EXCEPT !.gates.lectures = g2 ]
       IN  /\ gateResults' = IF ~g2.passed THEN FailAt(r, 2) ELSE r
           /\ gPc' = IF ~g2.passed THEN "done" ELSE "g3"
    /\ gLog' = Append(gLog, 2)
    /\ UNCHANGED << gArt, gProd, firstResults, scoreVars, renderVars, contentJson, orchVars >>

\* if (productionData.audioFiles?.length || productionData.videoFiles?.length)
\* A chain that runs Gate 3 for audio files only.
Gate3AppliesToAudioOnly(prod) == Len(prod.audioFiles) > 0

Gate3Applies(prod) == Len(prod.audioFiles) > 0 \/ Len(prod.videoFiles) > 0

RunGate3 ==
    /\ gPc = "g3"
    /\ Gate3Applies(gProd)
    /\ LET g3 == gateVideo(gProd)
           r  == [ gateResults EXCEPT !.gates.video = g3 ]
       IN  /\ gateResults' = IF ~g3.passed THEN FailAt(r, 3) ELSE r
           /\ gPc' = IF ~g3.passed THEN "done" ELSE "g4"
    /\ gLog' = Append(gLog, 3)
    /\ UNCHANGED << gArt, gProd, firstResults, scoreVars, renderVars, contentJson, orchVars >>

SkipGate3 ==
    /\ gPc = "g3"
    /\ ~Gate3Applies(gProd)
    /\ gPc' = "g4"
    /\ UNCHANGED << gArt, gProd, gateResults, gLog, firstResults, scoreVars, renderVars, contentJson, orchVars >>

RunGate4 ==
    /\ gPc = "g4"
    /\ ~ScorerThrows(gArt)
    /\ LET g4 == gateFinalAssembly(gArt)
           r  == [ gateResults EXCEPT !.gates.finalAssembly = g4 ]
       IN  gateResults' = IF ~g4.passed THEN FailAt(r, 4)
                          ELSE [ r EXCEPT !.overall = g4.overall ]
    /\ gPc' = "done"
    /\ gLog' = Append(gLog, 4)
    /\ UNCHANGED << gArt, gProd, firstResults, scoreVars, renderVars, contentJson, orchVars >>

\* evaluateCourseQuality raises inside gateFinalAssembly: runAllGates rejects.
Gate4Throws ==
    /\ gPc = "g4"
    /\ ScorerThrows(gArt)
    /\ gPc' = "thrown"
    /\ gLog' = Append(gLog, 4)
    /\ UNCHANGED << gArt, gProd, gateResults, firstResults, scoreVars, renderVars, contentJson, orchVars >>

runAllGates ==
    \/ RunGate1 \/ RunGate2 \/ RunGate3 \/ SkipGate3 \/ RunGate4 \/ Gate4Throws

(***************************************************************************)
(* curriculum.js.                                                          *)
(***************************************************************************)
\* courses[numId - 1] || null
getCourseById(courseId) == IF courseId \in Courses THEN courseId ELSE NoCourse

\* loadCoursesFromExcel().filter(c => c.category === category), in sheet order
getCoursesByCategory(category) ==
    SelectSeq([ c \in Courses |-> c ], LAMBDA c : CategoryOf(c) = category)

\* courses.find(c => c.status !== 'completed')
FirstNotCompleted(courses, status) ==
    LET open == SelectSeq(courses, LAMBDA c : status[c] # "completed")
    IN  IF open = << >> THEN NoCourse ELSE Head(open)

\* Entries that are neither completed nor in_progress, sorted by priority
\* (the sort is stable); available[0] || null.
getNextCourse(status) ==
    LET available == { c \in Courses : status[c] \notin { "completed", "in_progress" } }
    IN  IF available = {} THEN NoCourse
        ELSE CHOOSE c \in available :
                 \A d \in available :
                     \/ PriorityOf(c) < PriorityOf(d)
                     \/ PriorityOf(c) = PriorityOf(d) /\ c <= d

\* courseStatus[courseId] = { status, ... }
updateCourseStatus(status, courseId, new) == [ status EXCEPT ![courseId] = new ]

\* getStatistics().pending: total - completed - inProgress - failed
StatsPending(status) ==
    NumCourses - Cardinality({ c \in Courses :
                                 status[c] \in { "completed", "in_progress", "failed" } })

(***************************************************************************)
(* courseOrchestrator.js orchestrate().                                    *)
(***************************************************************************)
NoContent == [ none |-> TRUE ]
NoStage == [ absent |-> TRUE ]

NoStages ==
    [ curriculum |-> NoStage, scriptwriter |-> NoStage, narrator |-> NoStage,
      slideforge |-> NoStage, renderer |-> NoStage, quiz |-> NoStage,
      cheatsheet |-> NoStage, validator |-> NoStage ]

\* const result = { success: false, course: null, content: null,
\*                  qualityScore: 0, stages: {}, errors: [], warnings: [] }
NewResult ==
    [ success |-> FALSE, course |-> NoCourse, content |-> NoContent,
      qualityScore |-> 0, stages |-> NoStages, errors |-> << >>, warnings |-> << >> ]

NoCalls ==
    [ generator |-> 0, narrator |-> 0, slideforge |-> 0, renderer |-> 0,
      quiz |-> 0, cheatsheet |-> 0, gates |-> 0,
      directory |-> 0, resultFile |-> 0 ]

Called(name) == [ calls EXCEPT ![name] = @ + 1 ]

NoOptions == [ courseId |-> 0, category |-> "" ]

\* The four flags the command line can clear.
DefaultConfig ==
    [ enableVoice |-> TRUE, enableSlides |-> TRUE, enableVideo |-> TRUE,
      enableQuiz |-> TRUE ]

Configs ==
    { DefaultConfig,
      [ DefaultConfig EXCEPT !.enableVoice = FALSE ],
      [ DefaultConfig EXCEPT !.enableVideo = FALSE ],
      [ DefaultConfig EXCEPT !.enableSlides = FALSE, !.enableQuiz = FALSE ] }

\* --course=<n> (one past the sheet included), --category=<c>, or neither.
OptionSet ==
    { [ courseId |-> i, category |-> "" ] : i \in 1..(NumCourses + 1) }
    \cup { [ courseId |-> 0, category |-> cat ] : cat \in { "", "A", "B" } }

\* No batch is under way.
NoBatch == [ phase |-> "none", i |-> 0, count |-> 0, category |-> "",
             results |-> << >>, successful |-> 0, failed |-> 0, cooldowns |-> 0 ]

OrchIdle ==
    /\ pc = "idle" /\ config = DefaultConfig /\ options = NoOptions
    /\ result = NewResult /\ content = NoContent /\ qualityScore = 0
    /\ scriptAttempts = 0 /\ hist = << >> /\ calls = NoCalls
    /\ lastStatus = "none" /\ runs = 0 /\ batch = NoBatch
    /\ courseStatus = [ c \in Courses |-> "pending" ]
    /\ contentJson = NoContent

\* Stage 1's choice of the course.
SelectedCourse(opts, status) ==
    IF opts.courseId # 0 THEN getCourseById(opts.courseId)
    ELSE IF opts.category # ""
         THEN FirstNotCompleted(getCoursesByCategory(opts.category), status)
         ELSE getNextCourse(status)

\* A catch that records the error and leaves the catalog as it is.
CatchWithoutStatus(res, cl) ==
    /\ calls' = [ cl EXCEPT !.resultFile = @ + 1 ]
    /\ result' = [ res EXCEPT !.success = FALSE, !.errors = Append(@, "pipeline") ]
    /\ UNCHANGED << courseStatus, lastStatus >>
    /\ pc' = "returned"

\* The catch of lines 280-285, the write of the result file and the return,
\* entered with result res and with the calls cl made so far.
Catch(res, cl) ==
    /\ calls' = [ cl EXCEPT !.resultFile = @ + 1 ]
    /\ result' = [ res EXCEPT !.success = FALSE, !.errors = Append(@, "pipeline") ]
    /\ IF res.course # NoCourse
       THEN /\ courseStatus' = updateCourseStatus(courseStatus, res.course, "failed")
            /\ lastStatus' = "failed"
       ELSE UNCHANGED << courseStatus, lastStatus >>
    /\ pc' = "returned"

\* A stage 1 that creates the course directory before it looks the course up.
Stage1CallsDirectoryFirst(course) ==
    IF course = NoCourse THEN [ NoCalls EXCEPT !.directory = 1, !.resultFile = 1 ]
    ELSE [ NoCalls EXCEPT !.directory = 1 ]

\* What stage 1 has called when it is left: createCourseDirectory (line 90)
\* for a course that was found, the write of the result file (line 288)
\* after the throw of lines 79, 83 or 86.
Stage1Calls(course) ==
    IF course = NoCourse THEN [ NoCalls EXCEPT !.resultFile = 1 ]
    ELSE [ NoCalls EXCEPT !.directory = 1 ]

\* Entry and STAGE 1: CURRICULUM, lines 63-95 (and 280-289 when no course is
\* found).  Every run starts from a fresh result and a fresh gate chain.
SelectCourse(opts, cfg) ==
    /\ pc \in { "idle", "returned" }
    /\ runs < MaxRuns
    /\ runs' = runs + 1
    /\ options' = opts
    /\ config' = cfg
    /\ content' = NoContent /\ qualityScore' = 0 /\ scriptAttempts' = 0
    /\ contentJson' = NoContent
    /\ hist' = << >>
    /\ gPc' = "idle" /\ gArt' = GoodCourse /\ gProd' = NoProduction
    /\ gateResults' = NewResults /\ gLog' = << >> /\ firstResults' = NoResults
    /\ LET course == SelectedCourse(opts, courseStatus)
       IN  /\ calls' = Stage1Calls(course)
           /\ IF course = NoCourse
              THEN /\ result' = [ NewResult EXCEPT !.errors = << "pipeline" >> ]
                   /\ lastStatus' = "none"
                   /\ pc' = "returned"
                   /\ UNCHANGED courseStatus
              ELSE /\ result' = [ NewResult EXCEPT !.course = course,
                                                !.stages.curriculum = [ success |-> TRUE ] ]
                   /\ courseStatus' = updateCourseStatus(courseStatus, course, "in_progress")
                   /\ lastStatus' = "in_progress"
                   /\ pc' = "scriptwriter"
    /\ UNCHANGED << scoreVars, renderVars >>

\* A chain whose third branch goes round the loop without dropping the content.
RetryDecisionKeepsContent(score, attempts) ==
    IF score >= CONFIG_target THEN "break"
    ELSE IF score >= CONFIG_minimum /\ attempts >= CONFIG_maxRetries THEN "break"
    ELSE IF score < CONFIG_minimum THEN "continue"
    ELSE "break"

\* The if / else-if chain of lines 123-134 on a scored attempt.
RetryDecision(score, attempts) ==
    IF score >= CONFIG_target THEN "break"
    ELSE IF score >= CONFIG_minimum /\ attempts >= CONFIG_maxRetries THEN "break"
    ELSE IF score < CONFIG_minimum THEN "retry"
    ELSE "break"

\* The loop test of line 103 after attempt n, whose generator call is counted
\* here, then lines 141-143.
AfterAttempt(n, c1, q1, res1, brk) ==
    /\ scriptAttempts' = n
    /\ qualityScore' = q1
    /\ content' = c1
    /\ IF brk \/ ~(n < CONFIG_maxRetries)
       THEN IF c1 = NoContent
            THEN Catch(res1, Called("generator"))
            ELSE /\ calls' = Called("generator")
                 /\ result' = [ res1 EXCEPT
                                  !.content = c1,
                                  !.stages.scriptwriter =
                                      [ success |-> TRUE, attempts |-> n,
                                        qualityScore |-> q1 ] ]
                 /\ pc' = "narrator"
                 /\ UNCHANGED << courseStatus, lastStatus >>
       ELSE /\ calls' = Called("generator")
            /\ result' = res1
            /\ pc' = "scriptwriter"
            /\ UNCHANGED << courseStatus, lastStatus >>

\* if (lectureCount < 5), lines 109-112
TooFewLectures(c) == LectureCount(c) < 5

\* result.errors.push(`Script attempt ${scriptAttempts}: ...`)
ScriptError == [ result EXCEPT !.errors = Append(@, "Script attempt") ]

HistEntry(threw, lectures, scored, score) ==
    [ threw |-> threw, lectures |-> lectures, scored |-> scored, score |-> score ]

\* One pass of the loop in which SCRIPTWRITER.generateCourse rejects: content
\* keeps what it held.
GenerateThrows ==
    /\ pc = "scriptwriter"
    /\ hist' = Append(hist, HistEntry(TRUE, 0, FALSE, 0))
    /\ AfterAttempt(scriptAttempts + 1, content, qualityScore,
                    ScriptError, FALSE)
    /\ UNCHANGED << scoreVars, renderVars, contentJson, gateVars, config, options, runs, batch >>

\* One pass of the loop in which the generator hands back the artifact a,
\* which it has saved as content.json (scriptwriter.js lines 55-57) before it
\* returns.
Generate(a) ==
    /\ pc = "scriptwriter"
    /\ contentJson' = [ a EXCEPT !.gen = scriptAttempts + 1 ]
    /\ LET n  == scriptAttempts + 1
           c0 == [ a EXCEPT !.gen = n ]
       IN  IF TooFewLectures(c0)
           THEN /\ hist' = Append(hist, HistEntry(FALSE, LectureCount(c0), FALSE, 0))
                /\ AfterAttempt(n, NoContent, qualityScore, result, FALSE)
           ELSE IF ScorerThrows(c0)
           THEN /\ hist' = Append(hist, HistEntry(FALSE, LectureCount(c0), FALSE, 0))
                /\ AfterAttempt(n, c0, qualityScore, ScriptError, FALSE)
           ELSE LET q == evaluateCourseQuality(c0).overall
                    d == RetryDecision(q, n)
                IN  /\ hist' = Append(hist, HistEntry(FALSE, LectureCount(c0), TRUE, q))
                    /\ AfterAttempt(n, IF d = "retry" THEN NoContent ELSE c0,
                                    q, result, d = "break")
    /\ UNCHANGED << scoreVars, renderVars, gateVars, config, options, runs, batch >>

\* STAGE 3: NARRATOR, lines 146-162.  The narrator hands back the audio of the
\* n lectures it narrated, or rejects.
Narrate(threw, n) ==
    /\ pc = "narrator"
    /\ IF config.enableVoice
       THEN /\ calls' = Called("narrator")
            /\ result' =
                 IF threw
                 THEN [ result EXCEPT
                          !.warnings = Append(@, "Narration"),
                          !.stages.narrator = [ success |-> FALSE, skipped |-> FALSE,
                                                audioFiles |-> << >> ] ]
                 ELSE [ result EXCEPT
                          !.stages.narrator = [ success |-> TRUE, skipped |-> FALSE,
                                                audioFiles |-> AudioFiles(n, n) ] ]
       ELSE /\ result' = [ result EXCEPT
                             !.stages.narrator = [ success |-> TRUE, skipped |-> TRUE,
                                                   audioFiles |-> << >> ] ]
            /\ UNCHANGED calls
    /\ pc' = "slideforge"
    /\ UNCHANGED << scoreVars, renderVars, contentJson, gateVars, courseStatus, config, options, content,
                    qualityScore, scriptAttempts, hist, lastStatus, runs, batch >>

\* STAGE 4: SLIDEFORGE, lines 165-184.
Slides(threw) ==
    /\ pc = "slideforge"
    /\ IF config.enableSlides
       THEN /\ calls' = Called("slideforge")
            /\ result' = [ result EXCEPT
                             !.stages.slideforge = [ success |-> ~threw, skipped |-> FALSE ] ]
       ELSE /\ result' = [ result EXCEPT
                             !.stages.slideforge = [ success |-> TRUE, skipped |-> TRUE ] ]
            /\ UNCHANGED calls
    /\ pc' = "renderer"
    /\ UNCHANGED << scoreVars, renderVars, contentJson, gateVars, courseStatus, config, options, content,
                    qualityScore, scriptAttempts, hist, lastStatus, runs, batch >>

\* A renderer stage that asks for CONFIG.enableVideo only.
RenderAppliesWithoutAudio(cfg, narrator) == cfg.enableVideo

\* CONFIG.enableVideo && result.stages.narrator?.audioFiles?.length > 0
RenderApplies(cfg, narrator) == cfg.enableVideo /\ Len(narrator.audioFiles) > 0

\* STAGE 5: RENDERER, lines 187-202.  The renderer hands back v videos, or
\* rejects.
Render(threw, v) ==
    /\ pc = "renderer"
    /\ IF RenderApplies(config, result.stages.narrator)
       THEN /\ calls' = Called("renderer")
            /\ result' =
                 IF threw
                 THEN [ result EXCEPT
                          !.stages.renderer = [ success |-> FALSE, skipped |-> FALSE,
                                                videoFiles |-> << >> ] ]
                 ELSE [ result EXCEPT
                          !.stages.renderer = [ success |-> TRUE, skipped |-> FALSE,
                                                videoFiles |-> VideoFiles(v) ] ]
       ELSE /\ result' = [ result EXCEPT
                             !.stages.renderer = [ success |-> TRUE, skipped |-> TRUE,
                                                   videoFiles |-> << >> ] ]
            /\ UNCHANGED calls
    /\ pc' = "quiz"
    /\ UNCHANGED << scoreVars, renderVars, contentJson, gateVars, courseStatus, config, options, content,
                    qualityScore, scriptAttempts, hist, lastStatus, runs, batch >>

\* What generateFinalAssessment(content, 15) may hand back: the model's
\* questions, or the fallback quiz.  It catches its own errors.
GeneratedQuizzes ==
    { FallbackQuiz, [ n |-> 15, good |-> TRUE, types |-> { "mcq", "truefalse" } ] }

\* STAGE 6: QUIZ, lines 205-228.  A content without final questions is given
\* a generated assessment, in place, before quiz.json is written; the write
\* may reject.
Quiz(threw, quiz) ==
    /\ pc = "quiz"
    /\ IF config.enableQuiz
       THEN LET fill == content.finalQuiz.n = 0
                c1   == IF fill THEN [ content EXCEPT !.finalQuiz = quiz ] ELSE content
            IN  /\ calls' = IF fill THEN Called("quiz") ELSE calls
                /\ content' = c1
                /\ result' = [ result EXCEPT !.content = c1,
                                             !.stages.quiz = [ success |-> ~threw ] ]
       ELSE UNCHANGED << calls, content, result >>
    /\ pc' = "cheatsheet"
    /\ UNCHANGED << scoreVars, renderVars, contentJson, gateVars, courseStatus, config, options,
                    qualityScore, scriptAttempts, hist, lastStatus, runs, batch >>

\* A stage 7 that starts generateCheatsheet and goes on without awaiting it.
CheatsheetNotAwaited(threw) ==
    /\ pc = "cheatsheet"
    /\ calls' = Called("cheatsheet")
    /\ pc' = "validator"
    /\ UNCHANGED << scoreVars, renderVars, contentJson, gateVars, courseStatus, config, options, content, result,
                    qualityScore, scriptAttempts, hist, lastStatus, runs, batch >>

\* STAGE 7: CHEATSHEET, lines 231-240.
Cheatsheet(threw) ==
    /\ pc = "cheatsheet"
    /\ calls' = Called("cheatsheet")
    /\ result' = [ result EXCEPT !.stages.cheatsheet = [ success |-> ~threw ] ]
    /\ pc' = "validator"
    /\ UNCHANGED << scoreVars, renderVars, contentJson, gateVars, courseStatus, config, options, content,
                    qualityScore, scriptAttempts, hist, lastStatus, runs, batch >>

\* STAGE 8: VALIDATOR, lines 243-249: runAllGates is called on the content and
\* on the audio and video the stages recorded.
Validate ==
    /\ pc = "validator"
    /\ calls' = Called("gates")
    /\ gPc' = "g1"
    /\ gArt' = content
    /\ gProd' = [ audioFiles |-> result.stages.narrator.audioFiles,
                  videoFiles |-> result.stages.renderer.videoFiles ]
    /\ gateResults' = NewResults
    /\ gLog' = << >>
    /\ firstResults' = NoResults
    /\ pc' = "gates"
    /\ UNCHANGED << scoreVars, renderVars, contentJson, courseStatus, config, options, result, content,
                    qualityScore, scriptAttempts, hist, lastStatus, runs, batch >>

\* gateResults.overall || qualityScore
ResultScore(results, quick) ==
    IF results.overall = NoOverall \/ results.overall = 0 THEN quick ELSE results.overall

\* An end of run whose success flag is the gate chain's verdict.
CompleteWithGateVerdict ==
    /\ pc = "gates"
    /\ gPc = "done"
    /\ contentJson' = content
    /\ LET score == ResultScore(gateResults, qualityScore)
           finalStatus == IF gateResults.passed THEN "completed" ELSE "needs_review"
       IN  /\ result' = [ result EXCEPT
                            !.qualityScore = score,
                            !.stages.validator = [ success |-> gateResults.passed,
                                                   score |-> score ],
                            !.success = gateResults.passed ]
           /\ courseStatus' = updateCourseStatus(courseStatus, result.course, finalStatus)
           /\ lastStatus' = finalStatus
    /\ calls' = Called("resultFile")
    /\ pc' = "returned"
    /\ UNCHANGED << scoreVars, renderVars, gateVars, config, options, content, qualityScore,
                    scriptAttempts, hist, runs, batch >>

\* runAllGates returned: lines 250-266 and the return.  content.json is
\* written again from content (line 260); the notification, whose failure is
\* caught at line 270, changes nothing the model keeps.
Complete ==
    /\ pc = "gates"
    /\ gPc = "done"
    /\ contentJson' = content
    /\ LET score == ResultScore(gateResults, qualityScore)
           finalStatus == IF gateResults.passed THEN "completed" ELSE "needs_review"
       IN  /\ result' = [ result EXCEPT
                            !.qualityScore = score,
                            !.stages.validator = [ success |-> gateResults.passed,
                                                   score |-> score ],
                            !.success = TRUE ]
           /\ courseStatus' = updateCourseStatus(courseStatus, result.course, finalStatus)
           /\ lastStatus' = finalStatus
    /\ calls' = Called("resultFile")
    /\ pc' = "returned"
    /\ UNCHANGED << scoreVars, renderVars, gateVars, config, options, content, qualityScore,
                    scriptAttempts, hist, runs, batch >>

\* runAllGates rejected: the await of line 249 raises into the catch of line 280.
ValidateThrows ==
    /\ pc = "gates"
    /\ gPc = "thrown"
    /\ Catch(result, calls)
    /\ UNCHANGED << scoreVars, renderVars, contentJson, gateVars, config, options, content, qualityScore,
                    scriptAttempts, hist, runs, batch >>

(***************************************************************************)
(* One run of the orchestrator on a fresh catalog, with collaborators that *)
(* may fail at every stage.                                                *)
(***************************************************************************)
(***************************************************************************)
(* renderer.js generateCourseNarration (lines 655-708) and                 *)
(* renderCourseVideos (lines 209-260), lecture by lecture, joined by       *)
(* stage 5 of the orchestrator, which hands the narrator's audioFiles to   *)
(* the renderer.  A lecture is kept as whether it has a script of 50       *)
(* characters or more and whether it has slides; an audio path is kept as  *)
(* the number of the lecture in its file name, 0 standing for null.        *)
(***************************************************************************)
NumLectures == 5

NoAudioPath == 0

NewNarration ==
    [ totalLectures |-> 0, successfulLectures |-> 0, failedLectures |-> 0,
      audioFiles |-> << >> ]

NewRendering ==
    [ totalLectures |-> 0, successfulRenders |-> 0, failedRenders |-> 0,
      videoFiles |-> << >> ]

RenderIdle ==
    /\ rCourse = << >> /\ rPc = "idle" /\ lectureIndex = 0
    /\ narResult = NewNarration /\ renderResult = NewRendering
    /\ rendered = << >>

\* Courses of NumLectures lectures of which at most one has no script and at
\* most one has no slides.
RenderCourses ==
    { [ i \in 1..NumLectures |-> [ script |-> i # a, slides |-> i # b ] ] :
        a \in 0..NumLectures, b \in 0..NumLectures }

\* audioFiles[lectureIndex - 1]?.audioPath || null, line 231
AudioPath(audioFiles, index) ==
    IF index <= Len(audioFiles) THEN audioFiles[index].audioPath ELSE NoAudioPath

\* One pass of the loop of generateCourseNarration, lines 671-702:
\* generateNarration succeeds (ok) or does not (result.success false or a
\* throw, both counted as failed).
NarrateLecture(ok) ==
    /\ rPc = "narrate"
    /\ lectureIndex <= Len(rCourse)
    /\ narResult' =
         LET r == [ narResult EXCEPT !.totalLectures = @ + 1 ]
         IN  IF ~rCourse[lectureIndex].script \/ ~ok
             THEN [ r EXCEPT !.failedLectures = @ + 1 ]
             ELSE [ r EXCEPT
                      !.successfulLectures = @ + 1,
                      !.audioFiles = Append(@, [ lectureIndex |-> lectureIndex,
                                                 audioPath |-> lectureIndex ]) ]
    /\ lectureIndex' = lectureIndex + 1
    /\ UNCHANGED << rCourse, rPc, renderResult, rendered >>
    /\ UNCHANGED << scoreVars, gateVars, orchVars, contentJson >>

\* generateCourseNarration returns; courseOrchestrator.js lines 149-153 keep
\* its audioFiles and lines 187-202 call the renderer with them when there is
\* at least one, and skip the stage otherwise.
NarrationReturns ==
    /\ rPc = "narrate"
    /\ lectureIndex > Len(rCourse)
    /\ IF Len(narResult.audioFiles) > 0
       THEN rPc' = "render" /\ lectureIndex' = 1
       ELSE rPc' = "done" /\ UNCHANGED lectureIndex
    /\ UNCHANGED << rCourse, narResult, renderResult, rendered >>
    /\ UNCHANGED << scoreVars, gateVars, orchVars, contentJson >>

\* One pass of the loop of renderCourseVideos, lines 220-255: a lecture
\* without slides is skipped, the others are rendered with the audio path of
\* line 231, and the render succeeds (ok) or does not.
RenderLecture(ok) ==
    /\ rPc = "render"
    /\ lectureIndex <= Len(rCourse)
    /\ LET r == [ renderResult EXCEPT !.totalLectures = @ + 1 ]
           audioPath == AudioPath(narResult.audioFiles, lectureIndex)
       IN  IF ~rCourse[lectureIndex].slides
           THEN /\ renderResult' = [ r EXCEPT !.failedRenders = @ + 1 ]
                /\ UNCHANGED rendered
           ELSE /\ rendered' = Append(rendered, [ lectureIndex |-> lectureIndex,
                                                  audioPath |-> audioPath ])
                /\ renderResult' =
                     IF ok
                     THEN [ r EXCEPT
                              !.successfulRenders = @ + 1,
                              !.videoFiles = Append(@, [ lectureIndex |-> lectureIndex ]) ]
                     ELSE [ r EXCEPT !.failedRenders = @ + 1 ]
    /\ lectureIndex' = lectureIndex + 1
    /\ UNCHANGED << rCourse, rPc, narResult >>
    /\ UNCHANGED << scoreVars, gateVars, orchVars, contentJson >>

\* renderCourseVideos returns, line 258.
RenderReturns ==
    /\ rPc = "render"
    /\ lectureIndex > Len(rCourse)
    /\ rPc' = "done"
    /\ UNCHANGED << rCourse, lectureIndex, narResult, renderResult, rendered >>
    /\ UNCHANGED << scoreVars, gateVars, orchVars, contentJson >>

InitRender ==
    /\ ScoreIdle /\ GatesIdle /\ OrchIdle
    /\ rCourse \in RenderCourses
    /\ rPc = "narrate" /\ lectureIndex = 1
    /\ narResult = NewNarration /\ renderResult = NewRendering
    /\ rendered = << >>

NextRender ==
    \/ \E ok \in BOOLEAN : NarrateLecture(ok)
    \/ NarrationReturns
    \/ \E ok \in BOOLEAN : RenderLecture(ok)
    \/ RenderReturns

SpecRender == InitRender /\ [][NextRender]_vars

Init == ScoreIdle /\ GatesIdle /\ OrchIdle /\ RenderIdle

orchestrate ==
    \/ \E opts \in OptionSet, cfg \in Configs : runs = 0 /\ SelectCourse(opts, cfg) /\ UNCHANGED batch
    \/ GenerateThrows
    \/ \E a \in GeneratedCourses : Generate(a)
    \/ \E threw \in BOOLEAN, n \in 0..MaxAudio : Narrate(threw, n)
    \/ \E threw \in BOOLEAN : Slides(threw)
    \/ \E threw \in BOOLEAN, v \in 0..1 : Render(threw, v)
    \/ \E threw \in BOOLEAN, quiz \in GeneratedQuizzes : Quiz(threw, quiz)
    \/ \E threw \in BOOLEAN : Cheatsheet(threw)
    \/ Validate
    \/ Complete
    \/ ValidateThrows

Next == orchestrate \/ runAllGates

Spec == Init /\ [][Next]_vars

(***************************************************************************)
(* One run in which every collaborator call returns or throws and every    *)
(* await is resumed: a step that can be taken is taken.  The collaborators *)
(* may fail at every stage; the generator's artifacts are those of the     *)
(* catalog runs and one that scores below CONFIG.minimum.                  *)
(***************************************************************************)
FairCourses == { LowCourse, MidCourse, HighCourse, BadCourse }

orchestrateFair ==
    \/ \E opts \in OptionSet :
           runs = 0 /\ SelectCourse(opts, DefaultConfig) /\ UNCHANGED batch
    \/ GenerateThrows
    \/ \E a \in FairCourses : Generate(a)
    \/ \E threw \in BOOLEAN : Narrate(threw, 1)
    \/ \E threw \in BOOLEAN : Slides(threw)
    \/ \E threw \in BOOLEAN : Render(threw, 1)
    \/ \E threw \in BOOLEAN : Quiz(threw, FallbackQuiz)
    \/ \E threw \in BOOLEAN : Cheatsheet(threw)
    \/ Validate
    \/ Complete
    \/ ValidateThrows

NextFair == orchestrateFair \/ runAllGates

\* Where the run and the gate chain stand, and the attempts counted so far.
control == << pc, gPc, scriptAttempts >>

PcValues == { "idle", "scriptwriter", "narrator", "slideforge", "renderer", "quiz",
              "cheatsheet", "validator", "gates", "returned" }

GPcValues == { "idle", "g1", "g2", "g3", "g4", "done", "thrown" }

\* The run goes on: until it has returned (line 289) a pending await is
\* resumed, by a result or by a rejection.  Every step of NextFair moves
\* control or counts an attempt, and one is possible until the return.
Resume ==
    /\ pc # "returned"
    /\ \E p \in PcValues, g \in GPcValues, n \in 0..CONFIG_maxRetries :
           pc' = p /\ gPc' = g /\ scriptAttempts' = n

SpecFair == Init /\ [][NextFair]_vars /\ WF_control(Resume)

(***************************************************************************)
(* Up to MaxRuns runs, one after the other, on the same catalog; outside   *)
(* the generator the collaborators do their work.                          *)
(***************************************************************************)
CatalogConfigs == { DefaultConfig, [ DefaultConfig EXCEPT !.enableVoice = FALSE ] }

CatalogCourses == { MidCourse, HighCourse, BadCourse }

orchestrateCatalog ==
    \/ \E opts \in OptionSet, cfg \in CatalogConfigs :
           SelectCourse(opts, cfg) /\ UNCHANGED batch
    \/ GenerateThrows
    \/ \E a \in CatalogCourses : Generate(a)
    \/ Narrate(FALSE, 1)
    \/ Slides(FALSE)
    \/ Render(FALSE, 1)
    \/ Quiz(FALSE, FallbackQuiz)
    \/ Cheatsheet(FALSE)
    \/ Validate
    \/ Complete
    \/ ValidateThrows

NextCatalog == orchestrateCatalog \/ runAllGates

SpecCatalog == Init /\ [][NextCatalog]_vars

(***************************************************************************)
(* courseOrchestrator.js orchestrateBatch() and batchRunner.js main():     *)
(* batches of runs, one after the other, on the same catalog, MaxRuns runs *)
(* in all.                                                                 *)
(***************************************************************************)
Categories == { "", "A", "B" }

\* Lines 292-295: the locals of orchestrateBatch(count, options).
BatchStart(count, category) ==
    /\ pc \in { "idle", "returned" }
    /\ batch.phase \in { "none", "done" }
    /\ runs + count <= MaxRuns
    /\ batch' = [ NoBatch EXCEPT !.phase = "run", !.count = count,
                                 !.category = category ]
    /\ UNCHANGED << scoreVars, renderVars, contentJson, gateVars, courseStatus, config, pc, options, result,
                    content, qualityScore, scriptAttempts, hist, calls, lastStatus,
                    runs >>

\* batchRunner.js main(), lines 34-45: nothing to do without a pending
\* entry, and no more runs than pending entries.
main(count, category) ==
    /\ StatsPending(courseStatus) # 0
    /\ BatchStart(Min(count, StatsPending(courseStatus)), category)

\* A cooldown after every run, the last one too.
CooldownAfterEveryRun(i, count) == TRUE

\* Line 307: if (i < count - 1)
CooldownDue(i, count) == i < count - 1

\* Line 297: i++ and the test i < count.
AfterTurn(i, count) == IF i + 1 < count THEN "run" ELSE "done"

\* Line 300: orchestrate({ category: options.category }) is called.  CONFIG
\* is set from the command line and is the same for all runs of a batch.
BatchRun(cfg) ==
    /\ batch.phase = "run"
    /\ batch.i = 0 \/ cfg = config
    /\ SelectCourse([ courseId |-> 0, category |-> batch.category ], cfg)
    /\ batch' = [ batch EXCEPT !.phase = "await" ]

\* Lines 300-307: the await of line 300 is resumed with the run's result,
\* which is pushed and counted; then the test of line 307.
BatchCollect ==
    /\ batch.phase = "await"
    /\ pc = "returned"
    /\ batch' = [ batch EXCEPT
                    !.results = Append(@, [ course |-> result.course,
                                            success |-> result.success ]),
                    !.successful = IF result.success THEN @ + 1 ELSE @,
                    !.failed = IF result.success THEN @ ELSE @ + 1,
                    !.i = IF CooldownDue(batch.i, batch.count) THEN @ ELSE @ + 1,
                    !.phase = IF CooldownDue(batch.i, batch.count) THEN "cooldown"
                              ELSE AfterTurn(batch.i, batch.count) ]
    /\ UNCHANGED << scoreVars, renderVars, contentJson, gateVars, courseStatus, config, pc, options, result,
                    content, qualityScore, scriptAttempts, hist, calls, lastStatus,
                    runs >>

\* Line 307: the timer of 3000 ms has fired; i++ and the next turn.
Cooldown ==
    /\ batch.phase = "cooldown"
    /\ batch' = [ batch EXCEPT !.i = @ + 1, !.cooldowns = @ + 1,
                               !.phase = AfterTurn(batch.i, batch.count) ]
    /\ UNCHANGED << scoreVars, renderVars, contentJson, gateVars, courseStatus, config, pc, options, result,
                    content, qualityScore, scriptAttempts, hist, calls, lastStatus,
                    runs >>

orchestrateBatch ==
    \/ \E count \in 1..MaxRuns, category \in Categories : BatchStart(count, category)
    \/ \E count \in 1..MaxRuns, category \in Categories : main(count, category)
    \/ \E cfg \in CatalogConfigs : BatchRun(cfg)
    \/ GenerateThrows
    \/ \E a \in CatalogCourses : Generate(a)
    \/ Narrate(FALSE, 1)
    \/ Slides(FALSE)
    \/ Render(FALSE, 1)
    \/ Quiz(FALSE, FallbackQuiz)
    \/ Cheatsheet(FALSE)
    \/ Validate
    \/ Complete
    \/ ValidateThrows
    \/ BatchCollect
    \/ Cooldown

NextBatch == orchestrateBatch \/ runAllGates

SpecBatch == Init /\ [][NextBatch]_vars

(***************************************************************************)
(* Specifications of the two evaluators on their own.                      *)
(***************************************************************************)
InitScore ==
    /\ scores \in ScoreVectors
    /\ evaluation = NoEvaluation
    /\ GatesIdle
    /\ OrchIdle
    /\ RenderIdle

NextScore == EvaluateScores

SpecScore == InitScore /\ [][NextScore]_vars

InitGates ==
    /\ ScoreIdle
    /\ gPc = "g1"
    /\ gArt \in GateArtifacts
    /\ gProd \in Productions
    /\ gateResults = NewResults
    /\ gLog = << >>
    /\ firstResults = NoResults
    /\ OrchIdle
    /\ RenderIdle

NextGates == runAllGates

SpecGates == InitGates /\ [][NextGates]_vars

(***************************************************************************)
(* The gate chain on courses of 8 and of 10 lectures that pass Gate 1, of  *)
(* which up to MaxShort lectures are short of words, with lecture          *)
(* durations that put the total below, at, between and above 30 and 120.   *)
(***************************************************************************)
MaxShort == 4

LectureShapes == { << 2, 2, 1, 1, 1, 1 >>, << 2, 2, 2, 2, 2 >> }

Gate2Durations == { 2, 3, 12, 15, 16 }

Gate2Artifacts ==
    { [ GoodCourse EXCEPT !.badObjective = bad,
                          !.sections = SectionsOf(sh, 0, nDef, dur, { "mcq" }) ] :
        bad \in BOOLEAN, sh \in LectureShapes, nDef \in 0..MaxShort,
        dur \in Gate2Durations }

InitLectures ==
    /\ ScoreIdle
    /\ gPc = "g1"
    /\ gArt \in Gate2Artifacts
    /\ gProd \in { NoProduction,
                   [ audioFiles |-> AudioFiles(1, 1), videoFiles |-> VideoFiles(1) ] }
    /\ gateResults = NewResults
    /\ gLog = << >>
    /\ firstResults = NoResults
    /\ OrchIdle
    /\ RenderIdle

SpecLectures == InitLectures /\ [][NextGates]_vars

(***************************************************************************)
(* runAllGates called a second time with the same courseContent and the    *)
(* same productionData, at once or MaxTick clock ticks later.              *)
(***************************************************************************)
MaxTick == 1

\* The second call: a new results object (line 464) with the time of this
\* call, the first call's results being kept by the caller.
runAllGatesAgain(t) ==
    /\ gPc = "done"
    /\ firstResults = NoResults
    /\ firstResults' = gateResults
    /\ gateResults' = [ NewResults EXCEPT !.timestamp = t ]
    /\ gLog' = << >>
    /\ gPc' = "g1"
    /\ UNCHANGED << gArt, gProd, scoreVars, renderVars, contentJson, orchVars >>

NextTwice == runAllGates \/ \E t \in 0..MaxTick : runAllGatesAgain(t)

SpecTwice == InitGates /\ [][NextTwice]_vars

(***************************************************************************)
(* Properties of a run (Spec) and of runs on one catalog (SpecCatalog).    *)
(***************************************************************************)
\* The retry loop of this run has been left.
LoopLeft == hist # << >> /\ pc # "scriptwriter"

\* Line 142 was reached: the loop left a content behind.
Accepted == result.content # NoContent

\* orchestrate() has returned.
RunOver == pc = "returned"

ScoredBelowTarget(h) == h.scored /\ h.score < CONFIG_target

ValidAtLeastMinimum(h) == h.scored /\ h.lectures >= 5 /\ h.score >= CONFIG_minimum

\* The attempt threw, had fewer than 5 lectures, or scored below MINIMUM.
FailedAttempt(h) ==
    \/ h.threw
    \/ ~h.threw /\ h.lectures < 5
    \/ h.scored /\ h.score < CONFIG_minimum

LaterStages == { "narrator", "slideforge", "renderer", "quiz", "cheatsheet", "validator" }

LaterCalls == { "narrator", "slideforge", "renderer", "quiz", "cheatsheet", "gates" }

\* C1: when attempts 1 and 2 both score below TARGET the generator is called
\* a third time, exactly three times in all, and a third result that is valid
\* with a score of at least MINIMUM is the accepted one, recorded with
\* attempts = 3 (generator results scoring 70, 88, 96: the third is accepted).
C1_ThirdAttemptAccepted ==
    (LoopLeft /\ \A i \in 1..Min(2, Len(hist)) : ScoredBelowTarget(hist[i])) =>
        /\ Len(hist) = 3
        /\ calls.generator = 3
        /\ ValidAtLeastMinimum(hist[3]) =>
               /\ Accepted
               /\ result.content.gen = 3
               /\ result.stages.scriptwriter.attempts = 3

C3_TerminalStatusMapping ==
    (RunOver /\ result.course # NoCourse) =>
        LET st == courseStatus[result.course]
            chainPassed == gPc = "done" /\ gateResults.passed
            chainFailed == gPc = "done" /\ ~gateResults.passed
        IN  /\ st = lastStatus
            /\ st \in { "completed", "needs_review", "failed" }
            /\ (st = "completed") <=> (Accepted /\ chainPassed)
            /\ (st = "needs_review") <=> (Accepted /\ chainFailed)
            /\ (st = "failed") <=> ~Accepted

\* C4: a later run, whatever its selector, never changes the status of an
\* entry that is completed, needs_review or failed.
C4_TerminalStatusKept ==
    [][ \A c \in Courses :
          courseStatus[c] \in { "completed", "needs_review", "failed" }
              => courseStatus'[c] = courseStatus[c] ]_vars

\* C5: once content is accepted, whatever NARRATE, SLIDES, RENDER, QUIZ and
\* CHEATSHEET throw, every later stage is still attempted, the gate chain is
\* run exactly once and the run ends in completed or needs_review, never in
\* failed.
C5_OptionalStagesNeverFatal ==
    /\ Accepted => lastStatus # "failed"
    /\ (RunOver /\ Accepted) =>
           /\ calls.gates = 1
           /\ lastStatus \in { "completed", "needs_review" }
           /\ result.success = TRUE
           /\ \A st \in { "narrator", "slideforge", "renderer", "cheatsheet" } :
                  result.stages[st] # NoStage
           /\ config.enableQuiz => result.stages.quiz # NoStage

\* An entry of result.errors or result.warnings that names the renderer.
RenderComplaint ==
    \/ \E i \in 1..Len(result.errors) : result.errors[i] = "Render"
    \/ \E i \in 1..Len(result.warnings) : result.warnings[i] = "Render"

\* C6: when NARRATE yields no audio (it returned none, it threw, or voice is
\* disabled) the renderer is not invoked, stages.renderer is recorded with
\* skipped = true and success not false, and neither errors nor warnings
\* carries an entry for RENDER.
C6_RenderSkippedWithoutAudio ==
    /\ (/\ result.stages.narrator # NoStage
        /\ ~result.stages.narrator.success \/ result.stages.narrator.skipped)
           => Len(result.stages.narrator.audioFiles) = 0
    /\ (result.stages.renderer # NoStage
            /\ Len(result.stages.narrator.audioFiles) = 0) =>
           /\ calls.renderer = 0
           /\ result.stages.renderer.skipped = TRUE
           /\ result.stages.renderer.success # FALSE
           /\ ~RenderComplaint

\* The narrator threw with video enabled, and the renderer stage was skipped.
C6_Witness ==
    /\ result.stages.renderer # NoStage
    /\ config.enableVoice /\ config.enableVideo
    /\ result.stages.narrator.success = FALSE
    /\ result.stages.renderer.skipped = TRUE
    /\ calls.narrator = 1 /\ calls.renderer = 0

\* The run found no course to work on.
SelectFailed == RunOver /\ result.course = NoCourse

\* C12: when the selector resolves to no entry (an unknown id, a category
\* without a non-completed entry, no next entry) no workspace is created, no
\* generation, optional stage or gate is invoked, and no entry's catalog
\* status is written.
C12_SelectFailureLeavesCatalog ==
    /\ [](SelectFailed =>
            /\ calls.directory = 0
            /\ calls.generator = 0
            /\ \A cl \in LaterCalls : calls[cl] = 0
            /\ \A st \in DOMAIN result.stages : result.stages[st] = NoStage
            /\ gLog = << >>
            /\ lastStatus = "none"
            /\ result.success = FALSE)
    /\ [][ (pc' = "returned" /\ result'.course = NoCourse)
               => courseStatus' = courseStatus ]_vars

\* The default selector finds no next entry: both entries are completed.
C12_Witness ==
    /\ SelectFailed
    /\ options = NoOptions
    /\ \A c \in Courses : courseStatus[c] \in { "completed", "in_progress" }
    /\ calls.resultFile = 1

\* Stage 1 threw: an error is recorded and no course was set (lines 79-89).
SelectThrew == result.course = NoCourse /\ result.errors # << >>

\* C13: an exception escapes orchestrate() to its caller if and only if
\* SELECT failed; in particular a run whose SELECT failed propagates its
\* exception, so it never comes back through the return of line 289.
C13_SelectFailurePropagates ==
    SelectThrew => ~RunOver

\* The statuses a run may leave behind.
TerminalStatuses == { "completed", "needs_review", "failed" }

\* C14: if every collaborator call returns or throws, every invocation of
\* orchestrate() comes to its return; at the return one result record has
\* been written and, if SELECT succeeded, the entry's status is completed,
\* needs_review or failed, never in_progress.
C14_EveryRunEnds ==
    /\ (runs > 0) ~> RunOver
    /\ [](RunOver =>
            /\ calls.resultFile = 1
            /\ result.course # NoCourse =>
                   courseStatus[result.course] \in TerminalStatuses)
    /\ [](pc \notin { "idle", "returned" } =>
            /\ calls.resultFile = 0
            /\ courseStatus[result.course] = "in_progress")

\* A run that selected an entry and ended in the catch.
C14_Witness ==
    /\ RunOver
    /\ result.course # NoCourse
    /\ result.success = FALSE
    /\ courseStatus[result.course] = "failed"
    /\ calls.resultFile = 1

\* The catalog entries a run is working on.
InProgress == { c \in Courses : courseStatus[c] = "in_progress" }

\* C15: orchestrateBatch(count) starts a run only when the one before has
\* returned and been counted and, but for the first, a cooldown has elapsed
\* since; no two entries are in progress at once; there is no cooldown after
\* the last run; and on return count runs have been made and counted once
\* each: successful + failed = count.
C15_BatchSequencing ==
    /\ [](batch.phase # "none" =>
            /\ Cardinality(InProgress) <= 1
            /\ Len(batch.results) = batch.successful + batch.failed
            /\ batch.cooldowns <= batch.count - 1
            /\ batch.phase = "await" =>
                   Len(batch.results) = batch.i /\ batch.cooldowns = batch.i
            /\ batch.phase = "done" =>
                   /\ batch.i = batch.count
                   /\ Len(batch.results) = batch.count
                   /\ batch.successful + batch.failed = batch.count
                   /\ batch.cooldowns = batch.count - 1)
    /\ [][ runs' = runs + 1 =>
               /\ pc \in { "idle", "returned" }
               /\ InProgress = { }
               /\ batch.phase = "run" /\ batch'.phase = "await"
               /\ Len(batch.results) = batch.i
               /\ batch.cooldowns = batch.i ]_vars
    /\ [][ Len(batch'.results) = Len(batch.results) + 1 =>
               batch.phase = "await" /\ pc = "returned" ]_vars

\* A batch of three runs has returned, with runs of both outcomes.
C15_Witness ==
    /\ batch.phase = "done"
    /\ batch.count = 3
    /\ batch.cooldowns = 2
    /\ batch.successful > 0
    /\ batch.failed > 0

\* C16: within one batch that uses the default selector, no catalog entry is
\* selected by two runs, whatever the outcome of the earlier run.
C16_BatchEntriesDistinct ==
    batch.category = "" =>
        \A i, j \in 1..Len(batch.results) :
            (i < j /\ batch.results[i].course # NoCourse) =>
                batch.results[i].course # batch.results[j].course

\* C17: a run with neither id nor category selects an entry whose status is
\* pending, the one of lowest priority number among the pending entries;
\* never one that is in_progress, completed, needs_review or failed.
C17_DefaultSelectsPending ==
    [][ (runs' = runs + 1 /\ options' = NoOptions /\ result'.course # NoCourse) =>
            /\ courseStatus[result'.course] = "pending"
            /\ \A c \in Courses :
                   courseStatus[c] = "pending" =>
                       PriorityOf(result'.course) <= PriorityOf(c) ]_vars

\* The collaborators in the order of the stages that call them.
CallOrder == << "generator", "narrator", "slideforge", "renderer", "quiz",
                "cheatsheet", "gates" >>

\* The stage that must have been recorded before collaborator k is called.
StageBefore(k) ==
    CASE k = 2 -> result.stages.scriptwriter # NoStage
      [] k = 3 -> result.stages.narrator # NoStage
      [] k = 4 -> result.stages.slideforge # NoStage
      [] k = 5 -> result.stages.renderer # NoStage
      [] k = 6 -> result.stages.renderer # NoStage
                  /\ (config.enableQuiz => result.stages.quiz # NoStage)
      [] k = 7 -> result.stages.cheatsheet # NoStage
      [] OTHER -> result.stages.curriculum # NoStage

\* The gate chain has been entered and has not returned.
ChainInFlight == gPc \in { "g1", "g2", "g3", "g4" }

\* C22: the collaborators of a run are called in the order of the stages,
\* each only when the stage before it has been recorded and no later one has
\* been called; the entry is in_progress and its directory made before the
\* first generation attempt; one call at most is made at a time, none while
\* the gate chain is in flight; and the final status is written only after
\* the chain has returned.
C22_StagesInOrder ==
    /\ [][ \A k \in 1..Len(CallOrder) :
               (runs' = runs /\ calls'[CallOrder[k]] > calls[CallOrder[k]]) =>
                   /\ StageBefore(k)
                   /\ \A j \in (k + 1)..Len(CallOrder) : calls'[CallOrder[j]] = 0
                   /\ \A j \in 1..Len(CallOrder) :
                          j # k => calls'[CallOrder[j]] = calls[CallOrder[j]]
                   /\ calls'[CallOrder[k]] = calls[CallOrder[k]] + 1
                   /\ calls.directory = 1
                   /\ courseStatus[result.course] = "in_progress"
                   /\ ~ChainInFlight ]_vars
    /\ [][ (runs' = runs /\ lastStatus' \in { "completed", "needs_review" }
               /\ lastStatus = "in_progress") =>
               (calls.gates = 1 /\ gPc = "done" /\ pc = "gates") ]_vars
    /\ [](ChainInFlight => pc = "gates" /\ calls.gates = 1)

\* A run in which every collaborator has been called and the status written.
C22_Witness ==
    /\ RunOver
    /\ \A k \in 1..Len(CallOrder) : calls[CallOrder[k]] > 0
    /\ calls.generator = 3
    /\ lastStatus \in { "completed", "needs_review" }

\* C25: the content GENERATE hands to the later stages is the output of the
\* most recent generator call, has at least 5 lectures, and
\* stages.scriptwriter.qualityScore is the score of that content and is at
\* least MINIMUM; content of a rejected attempt, or of an attempt whose
\* generation or scoring threw, is never the accepted content.
C25_AcceptedIsScored ==
    Accepted =>
        LET h == hist[Len(hist)]
        IN  /\ result.content.gen = Len(hist)
            /\ LectureCount(result.content) >= 5
            /\ ~h.threw /\ h.scored
            /\ result.stages.scriptwriter.qualityScore = h.score
            /\ h.score >= CONFIG_minimum

\* GENERATE was exhausted: the loop ended with no content.
GenerateExhausted == RunOver /\ hist # << >> /\ ~Accepted

\* C27: at the end of a run a content.json the run wrote holds the artifact
\* GENERATE accepted; an artifact of an attempt rejected for scoring below
\* MINIMUM is never left there, and a run that failed because GENERATE was
\* exhausted has written no content.json.
C27_ContentJsonIsAccepted ==
    RunOver =>
        /\ contentJson # NoContent =>
               /\ Accepted
               /\ [ contentJson EXCEPT !.finalQuiz = result.content.finalQuiz ]
                      = result.content
        /\ GenerateExhausted => contentJson = NoContent

\* C28: whenever Gate 4 was evaluated in a run, the result's qualityScore is
\* the overall score Gate 4 computed on the final artifact, whether the chain
\* passed or failed.
C28_ScoreIsGate4Score ==
    (RunOver /\ result.success /\ gateResults.gates.finalAssembly # NoGate) =>
        /\ result.qualityScore = gateResults.gates.finalAssembly.overall
        /\ result.stages.validator.score = gateResults.gates.finalAssembly.overall

\* The run went through lines 250-266.
PersistReached == result.stages.validator # NoStage

SuccessStatuses == { "completed", "needs_review" }

\* C29: a run's success flag is true iff GENERATE accepted content and the
\* run reached the end of the pipeline, that is iff its last status is
\* completed or needs_review, whatever the gate chain said; and the batch
\* counts a run as successful iff it ended completed or needs_review and as
\* failed iff it ended failed or found no course.
C29_SuccessFlag ==
    /\ [](RunOver =>
            /\ result.success <=> lastStatus \in SuccessStatuses
            /\ result.success <=> (Accepted /\ PersistReached)
            /\ result.success => courseStatus[result.course] = lastStatus
            /\ ~result.success => lastStatus \in { "failed", "none" })
    /\ [][ Len(batch'.results) = Len(batch.results) + 1 =>
               /\ batch'.successful =
                      batch.successful + (IF lastStatus \in SuccessStatuses THEN 1 ELSE 0)
               /\ batch'.failed =
                      batch.failed + (IF lastStatus \in { "failed", "none" } THEN 1 ELSE 0) ]_vars

\* A batch of three has returned with two successful runs, the last of them
\* one whose gate chain failed, and one failed run.
C29_Witness ==
    /\ batch.phase = "done" /\ batch.count = 3
    /\ batch.successful = 2 /\ batch.failed = 1
    /\ lastStatus = "needs_review"
    /\ result.success /\ ~gateResults.passed

OptionalStages == { "narrator", "slideforge", "renderer", "quiz", "cheatsheet" }

\* The name under which a stage's warning would stand in result.warnings.
WarningOf(st) ==
    CASE st = "narrator"   -> "Narration"
      [] st = "slideforge" -> "Slides"
      [] st = "renderer"   -> "Render"
      [] st = "quiz"       -> "Quiz"
      [] st = "cheatsheet" -> "Cheatsheet"

\* C11: whenever NARRATE, SLIDES, RENDER, QUIZ or CHEATSHEET throws, the
\* stage's outcome is recorded with success = false and result.warnings
\* carries a warning for that stage.
C11_FailuresAreWarned ==
    \A st \in OptionalStages :
        (result.stages[st] # NoStage /\ result.stages[st].success = FALSE) =>
            \E i \in 1..Len(result.warnings) : result.warnings[i] = WarningOf(st)

(***************************************************************************)
(* Properties of the gate chain (SpecGates).                               *)
(***************************************************************************)
Evaluated(k) == \E i \in 1..Len(gLog) : gLog[i] = k

GateSlot(k) ==
    CASE k = 1 -> gateResults.gates.curriculum
      [] k = 2 -> gateResults.gates.lectures
      [] k = 3 -> gateResults.gates.video
      [] k = 4 -> gateResults.gates.finalAssembly

\* Gate k, applied to the chain's inputs, fails.
GateFails(k) ==
    CASE k = 1 -> ~gateCurriculum(gArt).passed
      [] k = 2 -> ~gateLectures(gArt).passed
      [] k = 3 -> Gate3Applies(gProd) /\ ~gateVideo(gProd).passed
      [] k = 4 -> ~ScorerThrows(gArt) /\ ~gateFinalAssembly(gArt).passed

\* C7: the gates are evaluated in the order 1, 2, 3, 4; when gate k is the
\* first to fail the chain returns passed = false and failedAt = k, no gate
\* above k is evaluated and none has a result in the output; passed = true
\* only when no evaluated gate failed, and then failedAt is absent.
C7_GateChainShortCircuit ==
    /\ \A i \in 1..Len(gLog) : gLog[i] \in 1..4
    /\ \A i \in 1..(Len(gLog) - 1) : gLog[i] < gLog[i + 1]
    /\ \A k \in 2..4 : Evaluated(k) =>
           /\ Evaluated(1) /\ Evaluated(2)
           /\ (k = 4 /\ Gate3Applies(gProd)) => Evaluated(3)
    /\ \A k \in 1..4 : GateSlot(k) # NoGate => Evaluated(k) /\ GateSlot(k).gate = k
    /\ gPc = "done" =>
         /\ \A k \in 1..4 :
              (Evaluated(k) /\ GateFails(k) /\ \A j \in 1..(k - 1) : ~GateFails(j)) =>
                 /\ gateResults.passed = FALSE
                 /\ gateResults.failedAt = k
                 /\ \A j \in (k + 1)..4 : ~Evaluated(j) /\ GateSlot(j) = NoGate
         /\ gateResults.passed = TRUE =>
                 /\ \A k \in 1..4 : Evaluated(k) => ~GateFails(k)
                 /\ gateResults.failedAt = NoFailedAt
         /\ gateResults.passed = FALSE => \E k \in 1..4 : Evaluated(k) /\ GateFails(k)

\* Gate 2 failed after Gate 1 passed: Gates 3 and 4 were not evaluated.
C7_Witness ==
    /\ gPc = "done" /\ gateResults.failedAt = 2 /\ gLog = << 1, 2 >>
    /\ gateResults.gates.finalAssembly = NoGate
    /\ Gate3Applies(gProd) /\ GateFails(3) /\ GateFails(4)

Gate1Names == << "Title", "Description", "Objectives", "Sections", "Lectures" >>

\* The Gate 1 check called `name` fails on the chain's artifact.
Gate1Deficient(name) ==
    CASE name = "Title"       -> gArt.titleLen < 10 \/ gArt.titleLen > 80
      [] name = "Description" -> gArt.descLen < 200
      [] name = "Objectives"  -> gArt.objectives < 3
      [] name = "Sections"    -> Len(gArt.sections) < 5
      [] name = "Lectures"    -> Len(Lectures(gArt)) < 5

\* C8: every one of Gate 1's five checks is evaluated whatever the others
\* give; Gate 1 fails iff some check fails, and its failure list holds exactly
\* one entry for every failing check, so that fewer than 5 sections or fewer
\* than 5 lectures always fail the gate with each deficient check named.
C8_Gate1Complete ==
    gateResults.gates.curriculum # NoGate =>
        LET g == gateResults.gates.curriculum IN
        /\ g.failures = SelectSeq(Gate1Names, Gate1Deficient)
        /\ g.checks = SelectSeq(Gate1Names, LAMBDA n : ~Gate1Deficient(n))
        /\ g.passed = (\A i \in 1..5 : ~Gate1Deficient(Gate1Names[i]))
        /\ (Len(gArt.sections) < 5 \/ Len(Lectures(gArt)) < 5) => ~g.passed

\* Gate 1 recorded a failure of the check called `name`.
Gate1Failed(name) ==
    \E i \in 1..Len(gateResults.gates.curriculum.failures) :
        gateResults.gates.curriculum.failures[i] = name

\* C18: the structural check of the retry loop accepts an artifact if and only
\* if Gate 1's Sections and Lectures checks accept it; no artifact passes the
\* loop's check and then fails one of these two checks of Gate 1.
C18_StructuralChecksAgree ==
    gateResults.gates.curriculum # NoGate =>
        (~TooFewLectures(gArt) <=> (~Gate1Failed("Sections") /\ ~Gate1Failed("Lectures")))

\* How often name x occurs in the sequence s.
Occurrences(s, x) == Cardinality({ i \in 1..Len(s) : s[i] = x })

\* C19: Gate 4 passes if and only if every dimension score and the overall
\* score are at least the minimum and the description holds the disclosure;
\* without the disclosure it fails whatever the scores are; and every
\* dimension is listed exactly once, among the checks if its score is at least
\* 85 and among the failures otherwise.
C19_Gate4Decision ==
    gateResults.gates.finalAssembly # NoGate =>
        LET g == gateResults.gates.finalAssembly
            sc == DimensionScores(gArt)
        IN  /\ g.passed = (/\ \A d \in DimSet : sc[d] >= THRESHOLD_MINIMUM
                           /\ Overall(sc) >= THRESHOLD_MINIMUM
                           /\ gArt.hasAI)
            /\ ~gArt.hasAI => (~g.passed /\ Occurrences(g.failures, "Udemy Compliance") = 1)
            /\ \A d \in DimSet :
                   /\ Occurrences(g.checks, d) + Occurrences(g.failures, d) = 1
                   /\ Occurrences(g.checks, d) = 1 <=> sc[d] >= THRESHOLD_MINIMUM

\* Gate 4 has judged an artifact without the disclosure, of which some
\* dimensions reach the minimum and some do not.
C19_Witness ==
    /\ gateResults.gates.finalAssembly # NoGate
    /\ ~gArt.hasAI
    /\ Len(gateResults.gates.finalAssembly.checks) > 0
    /\ Len(gateResults.gates.finalAssembly.failures) > 1

\* C20: two invocations of runAllGates on the same artifact and the same
\* production metadata return results that are identical in every field.
C20_SameResultsTwice ==
    (gPc = "done" /\ firstResults # NoResults) => gateResults = firstResults

\* Gate 4, and with it the scorer, has been called on the chain's artifact.
ScorerCalled == gLog # << >> /\ gLog[Len(gLog)] = 4

\* C21: evaluateCourseQuality raises no exception on any artifact, malformed
\* ones included, and every dimension score it returns is an integer in 0..100.
C21_ScorerTotal ==
    ScorerCalled =>
        /\ gPc # "thrown"
        /\ ~evaluateCourseQuality(gArt).threw
        /\ \A d \in DimSet : DimensionScores(gArt)[d] \in 0..100

\* The lectures of the chain's artifact with fewer than 200 script words or
\* fewer than 2 slides.
ShortLectures ==
    { i \in 1..Len(Lectures(gArt)) :
        Lectures(gArt)[i].words < 200 \/ Lectures(gArt)[i].slides < 2 }

\* The summed duration of the lectures of the chain's artifact.
TotalDuration ==
    SumSeq([ i \in 1..Len(Lectures(gArt)) |-> Lectures(gArt)[i].duration ])

\* C23: with d short lectures out of n, Gate 2 fails its quality check iff
\* d/n > 0.3 (exactly 30% passes) and its duration check iff the summed
\* duration is below 30 or above 120; both checks are always evaluated, and
\* the gate passes iff both pass.
C23_Gate2Tolerance ==
    gateResults.gates.lectures # NoGate =>
        LET g == gateResults.gates.lectures
            d == Cardinality(ShortLectures)
            n == Len(Lectures(gArt))
            qualityFails  == 10 * d > 3 * n
            durationFails == TotalDuration < 30 \/ TotalDuration > 120
        IN  /\ Occurrences(g.failures, "Quality") = (IF qualityFails THEN 1 ELSE 0)
            /\ Occurrences(g.checks, "Quality") = (IF qualityFails THEN 0 ELSE 1)
            /\ Occurrences(g.failures, "Duration") = (IF durationFails THEN 1 ELSE 0)
            /\ Occurrences(g.checks, "Duration") = (IF durationFails THEN 0 ELSE 1)
            /\ Len(g.checks) + Len(g.failures) = 2
            /\ g.passed = (~qualityFails /\ ~durationFails)

\* Gate 2 has passed a course with exactly 30% of its lectures short and a
\* total duration of exactly 120 minutes.
C23_Witness ==
    /\ gateResults.gates.lectures # NoGate
    /\ 10 * Cardinality(ShortLectures) = 3 * Len(Lectures(gArt))
    /\ Cardinality(ShortLectures) > 0
    /\ TotalDuration = 120
    /\ gateResults.gates.lectures.passed

\* The chain has gone past the place of Gate 3.
PastGate3 ==
    \/ gPc \in { "g4", "thrown" }
    \/ gPc = "done" /\ gateResults.gates.lectures # NoGate
                    /\ gateResults.gates.lectures.passed

\* The declared audio files that exist.
ExistingAudio == { i \in 1..Len(gProd.audioFiles) : gProd.audioFiles[i].exists }

\* C24: Gate 3 is evaluated iff the production metadata holds an audio or a
\* video file; when it is not, the results carry no Gate 3 entry and the chain
\* goes on to Gate 4; when it is, it fails exactly when fewer than half of the
\* declared audio files exist (exactly half passes).
C24_Gate3SkipOrFail ==
    PastGate3 =>
        LET declared == Len(gProd.audioFiles) + Len(gProd.videoFiles) > 0
            g == gateResults.gates.video
        IN  /\ Evaluated(3) <=> declared
            /\ (g # NoGate) <=> declared
            /\ ~declared =>
                   /\ gateResults.failedAt # 3
                   /\ gPc = "g4" \/ Evaluated(4)
            /\ declared =>
                   /\ g.passed = ~(2 * Cardinality(ExistingAudio) < Len(gProd.audioFiles))
                   /\ ~g.passed => (gPc = "done" /\ gateResults.failedAt = 3 /\ ~Evaluated(4))
                   /\ g.passed => (gPc = "g4" \/ Evaluated(4))

\* Without production files the chain went from Gate 2 to Gate 4 and no
\* Gate 3 entry was made.
C24_Witness ==
    /\ gPc = "done"
    /\ Evaluated(4) /\ ~Evaluated(3)
    /\ gateResults.gates.video = NoGate
    /\ gProd = NoProduction

\* NARRATE produced an audio file for lecture k.
Narrated(k) == \E j \in 1..Len(narResult.audioFiles) : narResult.audioFiles[j].lectureIndex = k

\* C26: RENDER renders the lecture at position k with the audio file NARRATE
\* produced for lecture k, or with no audio if it produced none for lecture
\* k; no lecture is paired with the audio of a different lecture.
C26_AudioAligned ==
    \A i \in 1..Len(rendered) :
        LET k == rendered[i].lectureIndex
        IN  rendered[i].audioPath = (IF Narrated(k) THEN k ELSE NoAudioPath)

\* C30: an artifact whose description lacks the disclosure scores at most 80
\* on accuracy, so its evaluation is not passing and it never has all seven
\* dimensions at 85 or more; Gate 4's own compliance check therefore never
\* changes what the gate decides.
C30_ComplianceSubsumed ==
    /\ (~gArt.hasAI /\ ~ScorerThrows(gArt)) =>
           /\ scoreAccuracy(gArt) <= 80
           /\ ~evaluateCourseQuality(gArt).passing
           /\ \E d \in DimSet : DimensionScores(gArt)[d] < THRESHOLD_MINIMUM
    /\ gateResults.gates.finalAssembly # NoGate =>
           gateResults.gates.finalAssembly.passed = evaluateCourseQuality(gArt).passing

\* Gate 4 has failed an artifact without the disclosure whose accuracy score
\* is 80, the most it can be, and which names the compliance failure.
C30_Witness ==
    /\ gateResults.gates.finalAssembly # NoGate
    /\ ~gArt.hasAI
    /\ scoreAccuracy(gArt) = 80
    /\ ~gateResults.gates.finalAssembly.passed
    /\ Occurrences(gateResults.gates.finalAssembly.failures, "Udemy Compliance") = 1

\* All five checks fail at once and all five are named.
C8_Witness ==
    /\ gateResults.gates.curriculum # NoGate
    /\ Len(gateResults.gates.curriculum.failures) = 5
    /\ Len(gArt.sections) < 5 /\ Len(Lectures(gArt)) < 5

(***************************************************************************)
(* Properties of the scorer's aggregation (SpecScore).                     *)
(***************************************************************************)
\* C9: passing is false whenever at least one dimension score is below 85,
\* whatever the overall score, and failingDimensions lists exactly the
\* dimensions below 85.
C9_AsymmetricPassing ==
    evaluation # NoEvaluation =>
        /\ (\E d \in DimSet : scores[d] < 85) => evaluation.passing = FALSE
        /\ { evaluation.failingDimensions[i] :
               i \in 1..Len(evaluation.failingDimensions) }
             = { d \in DimSet : scores[d] < 85 }
        /\ Len(evaluation.failingDimensions)
             = Cardinality({ d \in DimSet : scores[d] < 85 })

\* Six dimensions at 100 and accuracy at 84: overall 96, not passing.
C9_Witness ==
    /\ evaluation # NoEvaluation
    /\ scores = [ d \in DimSet |-> IF d = "accuracy" THEN 84 ELSE 100 ]
    /\ evaluation.overall >= 95
    /\ evaluation.passing = FALSE

\* The documented weights, in hundredths.
DocumentedWeight ==
    [ accuracy |-> 25, learningObjectives |-> 15, contentStructure |-> 15,
      practicalApplication |-> 20, assessmentQuality |-> 10,
      productionCompleteness |-> 10, engagementClarity |-> 5 ]

\* Sum over the dimensions of score x weight, in hundredths.
ExactWeightedSum(v) ==
    SumSeq([ i \in 1..Len(Dims) |-> v[Dims[i]] * DocumentedWeight[Dims[i]] ])

\* C10: overall = round(0.25 accuracy + 0.15 learningObjectives
\* + 0.15 contentStructure + 0.20 practicalApplication + 0.10 assessmentQuality
\* + 0.10 productionCompleteness + 0.05 engagementClarity), the weights sum to
\* 1.0 and overall lies in 0..100.
C10_OverallIsRoundedWeightedSum ==
    evaluation # NoEvaluation =>
        /\ evaluation.overall = (ExactWeightedSum(scores) + 50) \div 100
        /\ evaluation.overall \in 0..100
        /\ SumSeq([ i \in 1..Len(Dims) |-> DocumentedWeight[Dims[i]] ]) = 100

=============================================================================
